---- MODULE Spec2Model ----
(***************************************************************************)
(* restarter: a controller that watches the pods of a StatefulSet and/or   *)
(* a label selector and deletes the unhealthy ones.                        *)
(*                                                                         *)
(*   internal/health      Checker.IsPodHealthy and its layers              *)
(*   internal/controller  PodReconciler.Reconcile, matchesFilter           *)
(*   cmd/restarter        main: flag validation and assembly               *)
(*                                                                         *)
(* Strings whose content the code inspects (the captured stdout and the    *)
(* expected output of the exec check) are sequences of characters; all     *)
(* other strings are compared with "" only and are TLA+ strings.           *)
(***************************************************************************)
EXTENDS Integers, Sequences, FiniteSets, TLC

(***************************************************************************)
(* Bounds of the model.                                                    *)
(***************************************************************************)
\* longest stdout captured from an exec check
MaxLen == 2
\* most pods the store creates
MaxUID == 2

(***************************************************************************)
(* Program constants.                                                      *)
(***************************************************************************)
\* "http://%s:8080%s"
HTTPPort == 8080
\* RequeueAfter: 10 * time.Second
RequeueDelay == 10
\* --health-check-timeout: "5s", in seconds
DefaultTimeout == 5
\* a second worker
MaxConcurrentReconciles_Two == 1 + 1

\* controller.Options{MaxConcurrentReconciles: 1}
MaxConcurrentReconciles == 1

\* a nil error; fmt.Errorf("<prefix>: %w", err) is <<prefix, err>>
NoErr == ""
Nil == <<>>
Errorf(prefix, err) == <<prefix, err>>

(***************************************************************************)
(* corev1.Pod, as far as the code reads it.                                *)
(***************************************************************************)
PodPhases == {"Pending", "Running", "Succeeded", "Failed", "Unknown"}
PodRunning == "Running"
PodReady == "Ready"
PodScheduled == "PodScheduled"
ConditionTrue == "True"
ConditionStatuses == {"True", "False", "Unknown"}

Condition(type, status) == [Type |-> type, Status |-> status]

\* pod.Status.Conditions: at most one condition of each type
ConditionLists ==
    {<<>>} \cup {<<Condition(PodReady, s)>> : s \in ConditionStatuses}
        \cup {<<Condition(PodScheduled, s), Condition(PodReady, "True")>> :
                 s \in {"True", "False"}}

\* one entry of pod.Status.ContainerStatuses: Ready, State.Waiting != nil
ContainerStatus(ready, waiting) == [Ready |-> ready, Waiting |-> waiting]

ContainerStatusLists ==
    {<<>>, <<ContainerStatus(TRUE, FALSE)>>, <<ContainerStatus(FALSE, FALSE)>>,
     <<ContainerStatus(FALSE, TRUE)>>,
     <<ContainerStatus(TRUE, FALSE), ContainerStatus(TRUE, TRUE)>>}

SeqsUpTo(S, n) == UNION {[1..k -> S] : k \in 0..n}

\* pod.Spec.Containers, by name
ContainerLists == {<<>>, <<"c1", "c2">>}

PodIPs == {"", "10.0.0.1"}

NoLabels == [k \in {} |-> ""]

(***************************************************************************)
(* health.HealthCheckOptions and health.Checker.                           *)
(***************************************************************************)
Alphabet == {"j", "p"}
Outputs == SeqsUpTo(Alphabet, MaxLen)
ExpectedOutputs == {<<>>, <<"j">>, <<"j", "p">>}

\* "/%zz" is a path url.Parse rejects
HTTPCheckURLs == {"", "/health", "/%zz"}
TCPPorts == {0, HTTPPort}
ExecCommands == {"", "ps aux | grep java"}
ContainerNames == {"", "c2"}

\* NewChecker leaves k8sClient and restConfig nil; SetKubernetesClient sets
\* both.  The Timeout of its httpClient is timeout as well.
NewChecker(timeout) ==
    [timeout |-> timeout, k8sClient |-> FALSE, restConfig |-> FALSE]
\* the client is dropped
SetKubernetesClient_Dropped(c) == c

SetKubernetesClient(c) == [c EXCEPT !.k8sClient = TRUE, !.restConfig = TRUE]

(***************************************************************************)
(* What the network answers to one evaluation: the HTTP GET, the TCP dial  *)
(* and the exec stream.  An answer is read only if its layer asks.         *)
(***************************************************************************)
StatusCodes == {199, 200, 399, 400}
HTTPAnswers ==
    {[err |-> TRUE, code |-> 0]} \cup [err : {FALSE}, code : StatusCodes]
TCPAnswers == [err : BOOLEAN]
\* executor: NewSPDYExecutor failed; stream: StreamWithContext failed or
\* timed out; exit: the command ran and exited with code
ExecAnswers ==
    {[kind |-> "executor", code |-> 0, stdout |-> <<>>],
     [kind |-> "stream", code |-> 0, stdout |-> <<>>],
     [kind |-> "exit", code |-> 2, stdout |-> <<>>]}
        \cup [kind : {"exit"}, code : {0}, stdout : Outputs]
\* The networks to tell apart for one evaluation: an answer varies only if
\* its layer is configured and there is somebody to answer, an IP for the
\* GET and the dial, an exec channel for the exec.
NetworksFor(c, p, o) ==
    [http : IF o.HTTPCheckURL # "" /\ p.PodIP # "" THEN HTTPAnswers
            ELSE {[err |-> TRUE, code |-> 0]},
     tcp : IF o.TCPPort > 0 /\ p.PodIP # "" THEN TCPAnswers
           ELSE {[err |-> TRUE]},
     exec : IF o.ExecCommand # "" /\ c.k8sClient /\ c.restConfig
            THEN ExecAnswers
            ELSE {[kind |-> "stream", code |-> 0, stdout |-> <<>>]}]

NoIO == <<>>
IO(op, to, port, failed, code, out) ==
    [op |-> op, to |-> to, port |-> port, failed |-> failed, code |-> code,
     out |-> out]
LayerResult(healthy, err, io) == [healthy |-> healthy, err |-> err, io |-> io]

\* url.Parse of "http://<ip>:8080<path>" as NewRequestWithContext runs it
URLParses(ip, path) == path # "/%zz"

\* a pod without IP counts as unreachable
checkHTTPHealth_NoIPUnhealthy(pod, healthCheckURL, net) ==
    IF pod.PodIP = "" THEN LayerResult(FALSE, NoErr, NoIO)
    ELSE LayerResult(~net.http.err /\ net.http.code >= 200
                        /\ net.http.code < 400,
                     NoErr,
                     <<IO("GET", pod.PodIP, HTTPPort, net.http.err,
                          net.http.code, <<>>)>>)

\* 400 counts as healthy
checkHTTPHealth_UpTo400(pod, healthCheckURL, net) ==
    IF pod.PodIP = "" THEN LayerResult(FALSE, "pod IP is not available", NoIO)
    ELSE LayerResult(~net.http.err /\ net.http.code >= 200
                        /\ net.http.code <= 400,
                     NoErr,
                     <<IO("GET", pod.PodIP, HTTPPort, net.http.err,
                          net.http.code, <<>>)>>)

checkHTTPHealth(pod, healthCheckURL, net) ==
    IF pod.PodIP = "" THEN LayerResult(FALSE, "pod IP is not available", NoIO)
    ELSE IF ~URLParses(pod.PodIP, healthCheckURL)
    THEN LayerResult(FALSE, "failed to create request", NoIO)
    ELSE LET io == <<IO("GET", pod.PodIP, HTTPPort, net.http.err,
                        net.http.code, <<>>)>>
         IN  IF net.http.err THEN LayerResult(FALSE, NoErr, io)
             ELSE LayerResult(net.http.code >= 200 /\ net.http.code < 400,
                              NoErr, io)

\* a failed dial is returned as an error
checkTCPPort_DialError(pod, port, net) ==
    IF pod.PodIP = "" THEN LayerResult(FALSE, "pod IP is not available", NoIO)
    ELSE LayerResult(~net.tcp.err,
                     IF net.tcp.err THEN "dial failed" ELSE NoErr,
                     <<IO("dial", pod.PodIP, port, net.tcp.err, 0, <<>>)>>)

checkTCPPort(pod, port, net) ==
    IF pod.PodIP = "" THEN LayerResult(FALSE, "pod IP is not available", NoIO)
    ELSE LET io == <<IO("dial", pod.PodIP, port, net.tcp.err, 0, <<>>)>>
         IN  IF net.tcp.err THEN LayerResult(FALSE, NoErr, io)
             ELSE LayerResult(TRUE, NoErr, io)

\* s[i:i+n] of Go, with i counted from 0
Slice(s, i, n) == SubSeq(s, i + 1, i + n)

RECURSIVE containsFrom(_, _, _)
containsFrom(s, substr, i) ==
    IF i > Len(s) - Len(substr) THEN FALSE
    ELSE IF Slice(s, i, Len(substr)) = substr THEN TRUE
    ELSE containsFrom(s, substr, i + 1)

\* the loop stops one position early
contains_StopsEarly(s, substr) ==
    IF Len(substr) > Len(s) THEN FALSE
    ELSE \E i \in 0..(Len(s) - Len(substr) - 1) :
            Slice(s, i, Len(substr)) = substr

contains(s, substr) ==
    IF Len(substr) > Len(s) THEN FALSE ELSE containsFrom(s, substr, 0)

\* a Checker without client reports the pod unhealthy
checkExecCommand_NoClient(c, pod, command, containerName, expectedOutput, net) ==
    LayerResult(FALSE, NoErr, NoIO)

checkExecCommand(c, pod, command, containerName, expectedOutput, net) ==
    IF ~c.k8sClient \/ ~c.restConfig
    THEN LayerResult(FALSE, "kubernetes client not configured for exec checks",
                     NoIO)
    ELSE IF Len(pod.Containers) = 0
    THEN LayerResult(FALSE, "pod has no containers", NoIO)
    ELSE LET container == IF containerName = "" THEN pod.Containers[1]
                          ELSE containerName
             io == <<IO("exec", container, 0, net.exec.kind # "exit",
                        net.exec.code, net.exec.stdout)>>
         IN  IF net.exec.kind = "executor"
             THEN LayerResult(FALSE, "failed to create executor", NoIO)
             ELSE IF net.exec.kind = "stream" \/ net.exec.code # 0
             THEN LayerResult(FALSE, NoErr, io)
             ELSE IF /\ expectedOutput # <<>>
                     /\ net.exec.stdout # expectedOutput
                     /\ ~contains(net.exec.stdout, expectedOutput)
             THEN LayerResult(FALSE, NoErr, io)
             ELSE LayerResult(TRUE, NoErr, io)

PhaseLayer_NotFailed(pod) == pod.Phase # "Failed"

\* Layer 1: pod.Status.Phase
PhaseLayer(pod) == pod.Phase = PodRunning

\* Layer 2: every PodReady condition present is True
ReadyLayer(pod) ==
    \A i \in 1..Len(pod.Conditions) :
        pod.Conditions[i].Type = PodReady
            => pod.Conditions[i].Status = ConditionTrue

Call(layer, r) == [layer |-> layer, healthy |-> r.healthy, err |-> r.err]

\* an evaluation so far: whether it has returned, what it returns, the layers
\* it invoked and the network operations those made
Evaluation(done, healthy, err, calls, io) ==
    [done |-> done, healthy |-> healthy, err |-> err, calls |-> calls,
     io |-> io]

\* a failing layer is remembered, and the layers after it still run
Layer_NoShortCircuit(e, configured, layer, prefix, rr) ==
    IF ~configured \/ e.err # Nil THEN e
    ELSE Evaluation(e.done \/ rr.err # NoErr \/ ~rr.healthy,
                    e.healthy /\ rr.healthy /\ rr.err = NoErr,
                    IF rr.err # NoErr THEN Errorf(prefix, rr.err) ELSE Nil,
                    Append(e.calls, Call(layer, rr)), e.io \o rr.io)

\* one "if configured { healthy, err := check(); if err.. ; if !healthy.. }"
Layer(e, configured, layer, prefix, rr) ==
    IF e.done \/ ~configured THEN e
    ELSE Evaluation(rr.err # NoErr \/ ~rr.healthy, rr.healthy /\ rr.err = NoErr,
                    IF rr.err # NoErr THEN Errorf(prefix, rr.err) ELSE Nil,
                    Append(e.calls, Call(layer, rr)), e.io \o rr.io)

StatusLayers(pod) ==
    LET ok == PhaseLayer(pod) /\ ReadyLayer(pod)
    IN  Evaluation(~ok, ok, Nil,
                   <<Call("status", LayerResult(ok, NoErr, NoIO))>>, NoIO)

IsPodHealthy(c, pod, opts, net) ==
    LET e1 == StatusLayers(pod)
        e2 == Layer(e1, opts.HTTPCheckURL # "", "http",
                    "http health check failed",
                    checkHTTPHealth(pod, opts.HTTPCheckURL, net))
        e3 == Layer(e2, opts.TCPPort > 0, "tcp", "tcp port check failed",
                    checkTCPPort(pod, opts.TCPPort, net))
        e4 == Layer(e3, opts.ExecCommand # "", "exec",
                    "exec command check failed",
                    checkExecCommand(c, pod, opts.ExecCommand,
                                     opts.ContainerName, opts.ExpectedOutput,
                                     net))
    IN  [healthy |-> e4.healthy, err |-> e4.err, calls |-> e4.calls,
         io |-> e4.io]

CheckPodStatus(pod) ==
    /\ \A i \in 1..Len(pod.Conditions) :
          /\ pod.Conditions[i].Type = PodReady
                => pod.Conditions[i].Status = ConditionTrue
          /\ pod.Conditions[i].Type = PodScheduled
                => pod.Conditions[i].Status = ConditionTrue
    /\ \A i \in 1..Len(pod.ContainerStatuses) :
          /\ pod.ContainerStatuses[i].Ready
          /\ ~pod.ContainerStatuses[i].Waiting

(***************************************************************************)
(* labels.Parse and Selector.Matches, for the selector texts of the model. *)
(* A parsed selector is its set of <<key, value>> equality requirements.   *)
(***************************************************************************)
\* "=router" is a text labels.Parse rejects
SelectorTexts == {"", "app=router", "=router"}

labelsParse(text) ==
    CASE text = "" -> [err |-> NoErr, terms |-> {}]
      [] text = "app=router" -> [err |-> NoErr, terms |-> {<<"app", "router">>}]
      [] text = "tier=db" -> [err |-> NoErr, terms |-> {<<"tier", "db">>}]
      [] text = "app=router,tier=db"
            -> [err |-> NoErr,
                terms |-> {<<"app", "router">>, <<"tier", "db">>}]
      [] OTHER -> [err |-> "unable to parse requirement", terms |-> {}]

\* the key of a term is enough
Matches_KeyOnly(terms, labels) == \A t \in terms : t[1] \in DOMAIN labels

Matches(terms, labels) ==
    \A t \in terms : t[1] \in DOMAIN labels /\ labels[t[1]] = t[2]

(***************************************************************************)
(* The command line (cmd/restarter/main.go) and the PodReconciler main     *)
(* builds from it.                                                         *)
(***************************************************************************)
VARIABLES
    flags,      \* the parsed command line
    proc,       \* main: "init", "running" or "exited"
    checker,    \* the health.Checker main created
    store,      \* the object store: pod name -> UID of the pod, 0 if none
    uids,       \* UIDs the store has handed out
    pc,         \* the worker: "idle", the next step of its Reconcile, "done"
    req,        \* the request of the current (or last) Reconcile
    pod,        \* the pod Reconcile fetched
    fetched,    \* how its Get ended: "", "found" or the error
    matched,    \* what matchesFilter returned: "", "yes" or "no"
    verdict,    \* what IsPodHealthy returned
    deletes,    \* the Delete calls of this Reconcile
    result,     \* what Reconcile returned
    lookups,    \* the answers to the Gets of the StatefulSet in this Reconcile
    inflight,   \* the Reconciles the controller has started and not finished
    queue,      \* the pods with a change notification waiting for the worker
    world       \* what each pod is like, whoever looks: ready, serving

vars ==
    <<flags, proc, checker, store, uids, pc, req, pod, fetched, matched,
      verdict, deletes, result, lookups, inflight, queue, world>>

PodNames == {"web-0", "web-1"}
TargetNamespace == "default"
\* the namespaces of the cluster
Namespaces == {"default", "kube-system"}
StatefulSetNames == {"", "web"}

healthCheckOptions ==
    [HTTPCheckURL |-> flags.healthCheckURL,
     ExecCommand |-> flags.execCheckCommand,
     TCPPort |-> flags.tcpCheckPort,
     ContainerName |-> flags.execCheckContainer,
     ExpectedOutput |-> flags.execCheckExpected]

r ==
    [StatefulSetName |-> flags.statefulSetName,
     PodLabelSelector |-> flags.podLabelSelector,
     Namespace |-> flags.namespace,
     HealthCheckOptions |-> healthCheckOptions]

NoPod ==
    [Namespace |-> "", Name |-> "", UID |-> 0, Labels |-> NoLabels,
     Containers |-> <<>>, Phase |-> "", Conditions |-> <<>>,
     ContainerStatuses |-> <<>>, PodIP |-> ""]
NoVerdict == [healthy |-> FALSE, err |-> Nil, calls |-> <<>>, io |-> <<>>]
NoRequest == [Namespace |-> "", Name |-> ""]
\* Reconcile has not returned
NotReturned == [returned |-> FALSE, RequeueAfter |-> 0, err |-> Nil]
Return(requeueAfter, err) ==
    [returned |-> TRUE, RequeueAfter |-> requeueAfter, err |-> err]

(***************************************************************************)
(* Pods.  A status is what the kubelet and the workload make of a pod; the *)
(* store hands the current one out with every Get.                         *)
(***************************************************************************)
Statuses ==
    [Labels : {[app |-> "router"]}, Containers : ContainerLists,
     Phase : PodPhases, Conditions : ConditionLists,
     ContainerStatuses : ContainerStatusLists, PodIP : PodIPs]

\* the statuses the pods of the running controller take
WatchedStatuses ==
    [Labels : {[app |-> "router"], [app |-> "frontend"]},
     Containers : {<<"c1", "c2">>}, Phase : {"Pending", "Running"},
     Conditions : {<<Condition(PodReady, "True")>>,
                   <<Condition(PodReady, "False")>>},
     ContainerStatuses : {<<>>, <<ContainerStatus(FALSE, TRUE)>>},
     PodIP : PodIPs]

\* a pod that is ready and answers its health endpoint
Sound == [ready |-> TRUE, serving |-> TRUE]

Pod(namespace, name, uid, st) ==
    [Namespace |-> namespace, Name |-> name, UID |-> uid, Labels |-> st.Labels,
     Containers |-> st.Containers, Phase |-> st.Phase,
     Conditions |-> st.Conditions,
     ContainerStatuses |-> st.ContainerStatuses, PodIP |-> st.PodIP]

(***************************************************************************)
(* client.Client: Get and Delete of a pod, Get of the StatefulSet.         *)
(***************************************************************************)
IsNotFound(err) == err = "NotFound"

\* the UID of the pod of a namespace and name, 0 if there is none: store
\* holds the pods of the namespace the controller is started for, and the
\* pods of the other namespaces are there all the time
Stored(namespace, name) ==
    IF namespace = TargetNamespace THEN store[name] ELSE MaxUID + 1

\* r.Get(ctx, req.NamespacedName, &pod); apiErr: the call itself fails
Get(key, apiErr, st) ==
    IF apiErr THEN [err |-> "InternalError", pod |-> NoPod]
    ELSE IF Stored(key.Namespace, key.Name) = 0
    THEN [err |-> "NotFound", pod |-> NoPod]
    ELSE [err |-> NoErr,
          pod |-> Pod(key.Namespace, key.Name,
                      Stored(key.Namespace, key.Name), st)]

\* the pods of the namespace are deleted, as DeleteAllOf does
Delete_AllOf(p, apiErr) ==
    IF apiErr THEN [err |-> "InternalError", store |-> store]
    ELSE [err |-> NoErr, store |-> [n \in PodNames |-> 0]]

\* r.Delete(ctx, &pod): by namespace and name, without preconditions
Delete(p, apiErr) ==
    IF apiErr THEN [err |-> "InternalError", store |-> store]
    ELSE IF Stored(p.Namespace, p.Name) = 0
    THEN [err |-> "NotFound", store |-> store]
    ELSE IF p.Namespace # TargetNamespace THEN [err |-> NoErr, store |-> store]
    ELSE [err |-> NoErr, store |-> [store EXCEPT ![p.Name] = 0]]

\* lines 95-96 and 125: one Get of the StatefulSet if a name is configured
Lookups(rr, sts) == IF rr.StatefulSetName # "" THEN <<sts>> ELSE <<>>

\* what r.Get of the StatefulSet answers: an error, or its Spec.Selector
\* (nil, one LabelSelectorAsSelector rejects, or matchLabels)
StatefulSetAnswers ==
    {[err |-> "NotFound", nil |-> TRUE, valid |-> FALSE, terms |-> {}],
     [err |-> "InternalError", nil |-> TRUE, valid |-> FALSE, terms |-> {}],
     [err |-> NoErr, nil |-> TRUE, valid |-> FALSE, terms |-> {}],
     [err |-> NoErr, nil |-> FALSE, valid |-> FALSE, terms |-> {}],
     [err |-> NoErr, nil |-> FALSE, valid |-> TRUE,
      terms |-> {<<"app", "router">>}]}

LabelSelectorAsSelector(sel) ==
    IF sel.valid THEN [err |-> NoErr, terms |-> sel.terms]
    ELSE [err |-> "invalid label selector", terms |-> {}]

\* a failed lookup lets the pod through
belongsToStatefulSet_FailOpen(rr, p, sts) ==
    IF sts.err # NoErr THEN TRUE
    ELSE IF sts.nil THEN FALSE
    ELSE LET selector == LabelSelectorAsSelector(sts)
         IN  IF selector.err # NoErr THEN FALSE
             ELSE Matches(selector.terms, p.Labels)

belongsToStatefulSet(rr, p, sts) ==
    IF sts.err # NoErr THEN FALSE
    ELSE IF sts.nil THEN FALSE
    ELSE LET selector == LabelSelectorAsSelector(sts)
         IN  IF selector.err # NoErr THEN FALSE
             ELSE Matches(selector.terms, p.Labels)

\* one criterion is enough
matchesFilter_Union(rr, p, sts) ==
    \/ rr.StatefulSetName # "" /\ belongsToStatefulSet(rr, p, sts)
    \/ /\ rr.PodLabelSelector # ""
       /\ labelsParse(rr.PodLabelSelector).err = NoErr
       /\ Matches(labelsParse(rr.PodLabelSelector).terms, p.Labels)

matchesFilter(rr, p, sts) ==
    IF rr.StatefulSetName # "" /\ ~belongsToStatefulSet(rr, p, sts) THEN FALSE
    ELSE IF rr.PodLabelSelector # ""
    THEN LET selector == labelsParse(rr.PodLabelSelector)
         IN  IF selector.err # NoErr THEN FALSE
             ELSE Matches(selector.terms, p.Labels)
    ELSE TRUE

\* the selector is parsed only when a pod is filtered
SetupWithManager_NoParse(rr) == NoErr

\* SetupWithManager: the error it returns
SetupWithManager(rr) ==
    IF rr.PodLabelSelector # "" /\ labelsParse(rr.PodLabelSelector).err # NoErr
    THEN "failed to parse pod label selector"
    ELSE NoErr

(***************************************************************************)
(* main                                                                    *)
(***************************************************************************)
Flags ==
    {f \in [namespace : {TargetNamespace},
            healthCheckTimeout : {DefaultTimeout},
            statefulSetName : StatefulSetNames,
            podLabelSelector : SelectorTexts,
            healthCheckURL : {"", "/health"}, tcpCheckPort : TCPPorts,
            execCheckCommand : ExecCommands,
            execCheckContainer : ContainerNames,
            execCheckExpected : {<<>>, <<"j">>}] :
        /\ f.execCheckCommand # "" => f.execCheckExpected # <<>>
        /\ f.execCheckContainer # ""
              => f.execCheckCommand = "" /\ f.execCheckExpected = <<>>}

Init ==
    /\ flags \in Flags
    /\ proc = "init"
    /\ checker = NewChecker(flags.healthCheckTimeout)
    /\ store = [n \in PodNames |-> 0]
    /\ uids = 0
    /\ pc = "idle"
    /\ req = NoRequest
    /\ pod = NoPod
    /\ fetched = ""
    /\ matched = ""
    /\ verdict = NoVerdict
    /\ deletes = <<>>
    /\ result = NotReturned
    /\ lookups = <<>>
    /\ inflight = 0
    /\ queue = {}
    /\ world = [n \in PodNames |-> Sound]

\* the validation is left out
NoFilter_Never(f) == FALSE

\* a container or an expected output of the exec check without its command
\* is refused as well
NoFilter_NorExecCommand(f) ==
    \/ f.statefulSetName = "" /\ f.podLabelSelector = ""
    \/ /\ f.execCheckCommand = ""
       /\ f.execCheckContainer # "" \/ f.execCheckExpected # <<>>

\* lines 86-90: neither --statefulset nor --pod-label-selector is given
NoFilter(f) == f.statefulSetName = "" /\ f.podLabelSelector = ""

\* main, from flag.Parse to mgr.Start; managerOK and clientsetOK: whether
\* ctrl.NewManager and kubernetes.NewForConfig succeed
Main ==
    /\ proc = "init"
    /\ \E managerOK \in BOOLEAN, clientsetOK \in BOOLEAN :
          IF NoFilter(flags)
          THEN proc' = "exited" /\ checker' = checker
          ELSE IF ~managerOK
          THEN proc' = "exited" /\ checker' = checker
          ELSE IF flags.execCheckCommand # "" /\ ~clientsetOK
          THEN proc' = "exited" /\ checker' = checker
          ELSE /\ checker' = IF flags.execCheckCommand # ""
                             THEN SetKubernetesClient(checker) ELSE checker
               /\ proc' = IF SetupWithManager(r) # NoErr THEN "exited"
                          ELSE "running"
    /\ UNCHANGED <<flags, store, uids, pc, req, pod, fetched, matched,
                   verdict, deletes, result, lookups, inflight, queue, world>>

(***************************************************************************)
(* The orchestrator and everybody else with access to the store.           *)
(***************************************************************************)
CreatePod ==
    /\ uids < MaxUID
    /\ \E name \in PodNames :
          /\ store[name] = 0
          /\ store' = [store EXCEPT ![name] = uids + 1]
    /\ uids' = uids + 1
    /\ UNCHANGED <<flags, proc, checker, pc, req, pod, fetched, matched,
                   verdict, deletes, result, lookups, inflight, queue, world>>

RemovePod ==
    /\ \E name \in PodNames :
          /\ store[name] # 0
          /\ store' = [store EXCEPT ![name] = 0]
    /\ UNCHANGED <<flags, proc, checker, uids, pc, req, pod, fetched, matched,
                   verdict, deletes, result, lookups, inflight, queue, world>>

(***************************************************************************)
(* PodReconciler.Reconcile, one step per call it makes.  Each step ends in *)
(* the next step or in a return.                                           *)
(***************************************************************************)
Goto(step) == [pc |-> step, result |-> NotReturned]
ReturnWith(requeueAfter, err) ==
    [pc |-> "done", result |-> Return(requeueAfter, err)]

\* a failed Get is requeued like the other failures
afterGet_Requeue(err) ==
    IF err # NoErr
    THEN IF IsNotFound(err) THEN ReturnWith(0, Nil)
         ELSE ReturnWith(RequeueDelay, Nil)
    ELSE Goto("filter")

\* NotFound is not told apart from success
afterGet_NotFoundGoesOn(err) ==
    IF err # NoErr /\ ~IsNotFound(err)
    THEN ReturnWith(0, Errorf("failed to get pod", err))
    ELSE Goto("filter")

\* lines 42-48: after r.Get returned err
afterGet(err) ==
    IF err # NoErr
    THEN IF IsNotFound(err) THEN ReturnWith(0, Nil)
         ELSE ReturnWith(0, Errorf("failed to get pod", err))
    ELSE Goto("filter")

\* lines 51-54: after matchesFilter returned m
afterFilter(m) == IF ~m THEN ReturnWith(0, Nil) ELSE Goto("eval")

\* the error of the evaluation is dropped
afterHealth_ErrorIsUnhealthy(v) ==
    IF ~v.healthy THEN Goto("delete") ELSE ReturnWith(0, Nil)

\* lines 59-66 and 88-89: after IsPodHealthy returned v
afterHealth(v) ==
    IF v.err # Nil THEN ReturnWith(RequeueDelay, Nil)
    ELSE IF ~v.healthy THEN Goto("delete")
    ELSE ReturnWith(0, Nil)

\* a failed Delete is not retried
afterDelete_NoRetry(err) == ReturnWith(0, Nil)

\* NotFound is retried like the other errors of the Delete
afterDelete_NotFoundRetries(err) ==
    IF err # NoErr THEN ReturnWith(RequeueDelay, Nil) ELSE ReturnWith(0, Nil)

\* lines 75-85: after r.Delete returned err
afterDelete(err) ==
    IF err # NoErr
    THEN IF IsNotFound(err) THEN ReturnWith(0, Nil)
         ELSE ReturnWith(RequeueDelay, Nil)
    ELSE ReturnWith(0, Nil)

\* main.go lines 113-118: the namespaces the cache of the manager watches
DefaultNamespaces(f) == {f.namespace}

\* lines 147-152: the predicate on the namespace of the pod of an event
namespacePredicate(rr, namespace) == namespace = rr.Namespace

\* the pods of every namespace are watched
Watched_Everywhere(rr, f, namespace) == TRUE

\* an event of a pod of the namespace becomes a request: the cache watches
\* the namespace and the predicate lets the pod through
Watched(rr, f, namespace) ==
    namespace \in DefaultNamespaces(f) /\ namespacePredicate(rr, namespace)

\* lines 40-48: the Get of the pod the request names
FetchStep(namespace, name, apiErr, st) ==
    LET key == [Namespace |-> namespace, Name |-> name]
        got == Get(key, apiErr, st)
    IN  /\ req' = key
        /\ pod' = got.pod
        /\ fetched' = IF got.err = NoErr THEN "found" ELSE got.err
        /\ pc' = afterGet(got.err).pc
        /\ result' = afterGet(got.err).result
        /\ inflight' = inflight + 1
        /\ UNCHANGED <<flags, proc, checker, store, uids, matched, verdict,
                       deletes, lookups>>

\* a worker is free and takes the request of an event, of any pod
Fetch ==
    /\ proc = "running"
    /\ inflight < MaxConcurrentReconciles
    /\ \E namespace \in Namespaces, name \in PodNames, apiErr \in BOOLEAN,
          st \in WatchedStatuses :
          /\ Watched(r, flags, namespace)
          /\ FetchStep(namespace, name, apiErr, st)
    /\ UNCHANGED <<queue, world>>

\* lines 50-54: matchesFilter
Filter ==
    /\ pc = "filter"
    /\ \E sts \in StatefulSetAnswers :
          LET m == matchesFilter(r, pod, sts)
          IN  /\ matched' = IF m THEN "yes" ELSE "no"
              /\ lookups' = lookups \o Lookups(r, sts)
              /\ pc' = afterFilter(m).pc
              /\ result' = afterFilter(m).result
    /\ UNCHANGED <<flags, proc, checker, store, uids, req, pod, fetched,
                   verdict, deletes, inflight, queue, world>>

\* lines 58-66 and 88-89: IsPodHealthy
EvaluateStep(net) ==
    LET v == IsPodHealthy(checker, pod, r.HealthCheckOptions, net)
    IN  /\ verdict' = v
        /\ pc' = afterHealth(v).pc
        /\ result' = afterHealth(v).result
        /\ UNCHANGED <<flags, proc, checker, store, uids, req, pod, fetched,
                       matched, deletes, lookups, inflight>>

Evaluate ==
    /\ pc = "eval"
    /\ \E net \in NetworksFor(checker, pod, r.HealthCheckOptions) :
          EvaluateStep(net)
    /\ UNCHANGED <<queue, world>>

\* lines 66-86: CheckPodStatus, which is only logged, and the Delete
DeleteStep(apiErr) ==
    LET del == Delete(pod, apiErr)
    IN  /\ deletes' = Append(deletes,
                             [Namespace |-> pod.Namespace, Name |-> pod.Name,
                              err |-> del.err,
                              statusOK |-> CheckPodStatus(pod)])
        /\ store' = del.store
        /\ pc' = afterDelete(del.err).pc
        /\ result' = afterDelete(del.err).result
        /\ UNCHANGED <<flags, proc, checker, uids, req, pod, fetched, matched,
                       verdict, lookups, inflight>>

DeletePod ==
    /\ pc = "delete"
    /\ \E apiErr \in BOOLEAN : DeleteStep(apiErr)
    /\ UNCHANGED <<queue, world>>

\* Reconcile has returned: the worker is free for the next request
HandledStep ==
    /\ pc' = "idle"
    /\ req' = NoRequest
    /\ pod' = NoPod
    /\ fetched' = ""
    /\ matched' = ""
    /\ verdict' = NoVerdict
    /\ deletes' = <<>>
    /\ result' = NotReturned
    /\ lookups' = <<>>
    /\ inflight' = inflight - 1
    /\ UNCHANGED <<flags, proc, checker, store, uids>>

Handled ==
    /\ pc = "done"
    /\ HandledStep
    /\ UNCHANGED <<queue, world>>

Next ==
    \/ Main
    \/ CreatePod
    \/ RemovePod
    \/ Fetch
    \/ Filter
    \/ Evaluate
    \/ DeletePod
    \/ Handled

Spec == Init /\ [][Next]_vars

(***************************************************************************)
(* The Health Evaluator alone: IsPodHealthy on any pod, any options and    *)
(* a Checker with or without the Kubernetes client.                        *)
(***************************************************************************)
EvalFlags ==
    {f \in [namespace : {TargetNamespace},
            healthCheckTimeout : {DefaultTimeout},
            statefulSetName : {"web"},
            podLabelSelector : {""}, healthCheckURL : HTTPCheckURLs,
            tcpCheckPort : TCPPorts, execCheckCommand : ExecCommands,
            execCheckContainer : ContainerNames,
            execCheckExpected : ExpectedOutputs] :
        f.execCheckCommand = ""
            => f.execCheckContainer = "" /\ f.execCheckExpected = <<>>}

InitEval ==
    /\ flags \in EvalFlags
    /\ proc = "running"
    /\ checker \in {NewChecker(flags.healthCheckTimeout)}
                  \cup {SetKubernetesClient(NewChecker(flags.healthCheckTimeout)) :
                           x \in {flags.execCheckCommand} \ {""}}
    /\ store = [n \in PodNames |-> IF n = "web-0" THEN 1 ELSE 0]
    /\ uids = 1
    /\ pc = "eval"
    /\ req = [Namespace |-> TargetNamespace, Name |-> "web-0"]
    /\ pod \in {Pod(TargetNamespace, "web-0", 1, st) : st \in Statuses}
    /\ fetched = "found"
    /\ matched = "yes"
    /\ verdict = NoVerdict
    /\ deletes = <<>>
    /\ result = NotReturned
    /\ lookups = <<[err |-> NoErr, nil |-> FALSE, valid |-> TRUE,
                    terms |-> {<<"app", "router">>}]>>
    /\ inflight = 1
    /\ queue = {}
    /\ world = [n \in PodNames |-> Sound]

SpecEval == InitEval /\ [][Evaluate]_vars

(***************************************************************************)
(* The Filter Matcher in its Reconcile: a fetched pod with any labels and  *)
(* a reconciler with any filter main lets through, up to the Delete.       *)
(***************************************************************************)
FilterSelectorTexts == {"", "app=router", "tier=db", "app=router,tier=db"}

FilterLabels ==
    {NoLabels, [app |-> "router"], [app |-> "frontend"], [tier |-> "db"],
     [app |-> "router", tier |-> "db"], [app |-> "frontend", tier |-> "db"],
     [app |-> "router", tier |-> "cache"]}

FilterFlags ==
    {f \in [namespace : {TargetNamespace},
            healthCheckTimeout : {DefaultTimeout},
            statefulSetName : StatefulSetNames,
            podLabelSelector : FilterSelectorTexts, healthCheckURL : {""},
            tcpCheckPort : {0}, execCheckCommand : {""},
            execCheckContainer : {""}, execCheckExpected : {<<>>}] :
        f.statefulSetName # "" \/ f.podLabelSelector # ""}

FilterStatuses ==
    [Labels : FilterLabels, Containers : {<<"c1", "c2">>},
     Phase : {"Pending", "Running"},
     Conditions : {<<Condition(PodReady, "True")>>},
     ContainerStatuses : {<<>>}, PodIP : {"10.0.0.1"}]

InitFilter ==
    /\ flags \in FilterFlags
    /\ proc = "running"
    /\ checker = NewChecker(flags.healthCheckTimeout)
    /\ store = [n \in PodNames |-> IF n = "web-0" THEN 1 ELSE 0]
    /\ uids = 1
    /\ pc = "filter"
    /\ req = [Namespace |-> TargetNamespace, Name |-> "web-0"]
    /\ pod \in {Pod(TargetNamespace, "web-0", 1, st) : st \in FilterStatuses}
    /\ fetched = "found"
    /\ matched = ""
    /\ verdict = NoVerdict
    /\ deletes = <<>>
    /\ result = NotReturned
    /\ lookups = <<>>
    /\ inflight = 1
    /\ queue = {}
    /\ world = [n \in PodNames |-> Sound]

NextFilter ==
    \/ Filter
    \/ Evaluate
    \/ DeletePod

SpecFilter == InitFilter /\ [][NextFilter]_vars

(***************************************************************************)
(* The controller with its notifications.  Reconcile is called when a pod  *)
(* is created, updated or deleted: a change of what the store holds of a   *)
(* pod puts its name in the queue of the worker, and nothing else does,    *)
(* but a Reconcile that asked for a requeue or returned an error.  What a  *)
(* pod answers on its health endpoint is not in the store.  A pod that     *)
(* went wrong stays so until it is deleted.                                *)
(***************************************************************************)
\* the pods of the StatefulSet the controller is told of
LiveNames == {"web-0"}

LiveFlags ==
    {f \in [namespace : {TargetNamespace},
            healthCheckTimeout : {DefaultTimeout},
            statefulSetName : StatefulSetNames,
            podLabelSelector : {"", "app=router"},
            healthCheckURL : {"/health"}, tcpCheckPort : {0},
            execCheckCommand : {""}, execCheckContainer : {""},
            execCheckExpected : {<<>>}] :
        (f.statefulSetName = "") # (f.podLabelSelector = "")}

\* the status the store holds of a pod that is like w
LiveStatus(w) ==
    [Labels |-> [app |-> "router"], Containers |-> <<"c1", "c2">>,
     Phase |-> PodRunning,
     Conditions |-> <<Condition(PodReady,
                                IF w.ready THEN "True" ELSE "False")>>,
     ContainerStatuses |-> <<>>, PodIP |-> "10.0.0.1"]

\* what the network answers to the evaluation of a pod that is like w
LiveNetwork(w) ==
    [http |-> IF w.serving THEN [err |-> FALSE, code |-> 200]
              ELSE [err |-> TRUE, code |-> 0],
     tcp |-> [err |-> TRUE],
     exec |-> [kind |-> "stream", code |-> 0, stdout |-> <<>>]]

InitLive ==
    /\ flags \in LiveFlags
    /\ proc = "running"
    /\ checker = NewChecker(flags.healthCheckTimeout)
    /\ store = [n \in PodNames |-> 0]
    /\ uids = 0
    /\ pc = "idle"
    /\ req = NoRequest
    /\ pod = NoPod
    /\ fetched = ""
    /\ matched = ""
    /\ verdict = NoVerdict
    /\ deletes = <<>>
    /\ result = NotReturned
    /\ lookups = <<>>
    /\ inflight = 0
    /\ queue = {}
    /\ world = [n \in PodNames |-> Sound]

\* the orchestrator creates a pod: a notification
LiveCreate ==
    /\ uids < MaxUID
    /\ \E name \in LiveNames :
          /\ store[name] = 0
          /\ store' = [store EXCEPT ![name] = uids + 1]
          /\ world' = [world EXCEPT ![name] = Sound]
          /\ queue' = queue \cup {name}
    /\ uids' = uids + 1
    /\ UNCHANGED <<flags, proc, checker, pc, req, pod, fetched, matched,
                   verdict, deletes, result, lookups, inflight>>

\* the kubelet sets the Ready condition of a pod to False: a notification
LiveUpdate ==
    /\ \E name \in LiveNames :
          /\ store[name] # 0
          /\ world[name].ready
          /\ world' = [world EXCEPT ![name].ready = FALSE]
          /\ queue' = queue \cup {name}
    /\ UNCHANGED <<flags, proc, checker, store, uids, pc, req, pod, fetched,
                   matched, verdict, deletes, result, lookups, inflight>>

\* the workload of a pod stops to answer: the store holds nothing of it,
\* and nobody is notified
LiveServe ==
    /\ \E name \in LiveNames :
          /\ store[name] # 0
          /\ world[name].serving
          /\ world' = [world EXCEPT ![name].serving = FALSE]
    /\ UNCHANGED <<flags, proc, checker, store, uids, pc, req, pod, fetched,
                   matched, verdict, deletes, result, lookups, inflight,
                   queue>>

\* a free worker takes the notification of the pod name
LiveFetchOf(name, apiErr) ==
    /\ proc = "running"
    /\ inflight < MaxConcurrentReconciles
    /\ name \in queue
    /\ Watched(r, flags, TargetNamespace)
    /\ FetchStep(TargetNamespace, name, apiErr, LiveStatus(world[name]))
    /\ queue' = queue \ {name}
    /\ UNCHANGED world

LiveFetch ==
    \E name \in LiveNames, apiErr \in BOOLEAN : LiveFetchOf(name, apiErr)

LiveEvaluate ==
    /\ pc = "eval"
    /\ EvaluateStep(LiveNetwork(world[pod.Name]))
    /\ UNCHANGED <<queue, world>>

\* a Delete that removed the pod: a notification
LiveDeleteOf(apiErr) ==
    /\ pc = "delete"
    /\ DeleteStep(apiErr)
    /\ queue' = IF store' # store THEN queue \cup {pod.Name} ELSE queue
    /\ UNCHANGED world

LiveDelete == \E apiErr \in BOOLEAN : LiveDeleteOf(apiErr)

\* the controller requeues the request of a Reconcile that returned an
\* error or asked for it
LiveHandled ==
    /\ pc = "done"
    /\ HandledStep
    /\ queue' = IF result.RequeueAfter > 0 \/ result.err # Nil
                THEN queue \cup {req.Name} ELSE queue
    /\ UNCHANGED world

NextLive ==
    \/ LiveCreate
    \/ LiveUpdate
    \/ LiveServe
    \/ LiveFetch
    \/ Filter
    \/ LiveEvaluate
    \/ LiveDelete
    \/ LiveHandled

\* the worker goes on with what it can do, takes every waiting name in its
\* turn, and the store does not fail for ever
FairLive ==
    /\ \A name \in LiveNames : WF_vars(\E e \in BOOLEAN : LiveFetchOf(name, e))
    /\ \A name \in LiveNames : SF_vars(LiveFetchOf(name, FALSE))
    /\ WF_vars(Filter)
    /\ WF_vars(LiveEvaluate)
    /\ WF_vars(LiveDelete)
    /\ SF_vars(LiveDeleteOf(FALSE))
    /\ WF_vars(LiveHandled)

SpecLive == InitLive /\ [][NextLive]_vars /\ FairLive

(***************************************************************************)
(* The controller and pods that start: the StatefulSet controller creates  *)
(* a pod Pending and not ready, and the kubelet makes it Running and Ready *)
(* when its containers are up.  The workloads are sound: a pod that runs   *)
(* answers.  Nobody but the controller deletes a pod.                      *)
(***************************************************************************)
\* a pod the StatefulSet controller has just created
Starting == [ready |-> FALSE, serving |-> TRUE, phase |-> "Pending"]

\* the status the store holds of a pod that is like w
StartStatus(w) == [LiveStatus(w) EXCEPT !.Phase = w.phase]

InitStart ==
    /\ flags \in LiveFlags
    /\ proc = "running"
    /\ checker = NewChecker(flags.healthCheckTimeout)
    /\ store = [n \in PodNames |-> 0]
    /\ uids = 0
    /\ pc = "idle"
    /\ req = NoRequest
    /\ pod = NoPod
    /\ fetched = ""
    /\ matched = ""
    /\ verdict = NoVerdict
    /\ deletes = <<>>
    /\ result = NotReturned
    /\ lookups = <<>>
    /\ inflight = 0
    /\ queue = {}
    /\ world = [n \in PodNames |-> Starting]

\* the StatefulSet controller creates the pod of a name that has none: a
\* notification
StartCreate ==
    /\ uids < MaxUID
    /\ \E name \in LiveNames :
          /\ store[name] = 0
          /\ store' = [store EXCEPT ![name] = uids + 1]
          /\ world' = [world EXCEPT ![name] = Starting]
          /\ queue' = queue \cup {name}
    /\ uids' = uids + 1
    /\ UNCHANGED <<flags, proc, checker, pc, req, pod, fetched, matched,
                   verdict, deletes, result, lookups, inflight>>

\* the kubelet has started the containers of a pod: a notification
StartRun ==
    /\ \E name \in LiveNames :
          /\ store[name] # 0
          /\ world[name].phase = "Pending"
          /\ world' = [world EXCEPT ![name].phase = PodRunning,
                                     ![name].ready = TRUE]
          /\ queue' = queue \cup {name}
    /\ UNCHANGED <<flags, proc, checker, store, uids, pc, req, pod, fetched,
                   matched, verdict, deletes, result, lookups, inflight>>

\* a free worker takes the notification of the pod name
StartFetch ==
    /\ proc = "running"
    /\ inflight < MaxConcurrentReconciles
    /\ Watched(r, flags, TargetNamespace)
    /\ \E name \in queue, apiErr \in BOOLEAN :
          /\ FetchStep(TargetNamespace, name, apiErr,
                       StartStatus(world[name]))
          /\ queue' = queue \ {name}
    /\ UNCHANGED world

NextStart ==
    \/ StartCreate
    \/ StartRun
    \/ StartFetch
    \/ Filter
    \/ LiveEvaluate
    \/ LiveDelete
    \/ LiveHandled

SpecStart == InitStart /\ [][NextStart]_vars

(***************************************************************************)
(* The evaluation with peers that may never answer: a server that accepts  *)
(* the connection of the GET and sends no response, a host that drops the  *)
(* packets of the dial, a command that does not exit.  A call to a silent  *)
(* peer returns when its deadline is over, and the worker waits in it      *)
(* (pc = "waiting") for ever if there is none.                             *)
(***************************************************************************)
\* --health-check-timeout, in seconds: any duration is accepted
Timeouts == {0, DefaultTimeout}

WaitFlags ==
    [namespace : {TargetNamespace}, healthCheckTimeout : Timeouts,
     statefulSetName : {"web"}, podLabelSelector : {""},
     healthCheckURL : {"", "/health"}, tcpCheckPort : TCPPorts,
     execCheckCommand : ExecCommands, execCheckContainer : {""},
     execCheckExpected : {<<>>}]

WaitStatuses ==
    [Labels : {[app |-> "router"]}, Containers : {<<"c1", "c2">>},
     Phase : {"Pending", "Running"},
     Conditions : {<<Condition(PodReady, "True")>>},
     ContainerStatuses : {<<>>}, PodIP : PodIPs]

InitWait ==
    /\ flags \in WaitFlags
    /\ proc = "running"
    /\ checker = IF flags.execCheckCommand # ""
                 THEN SetKubernetesClient(NewChecker(flags.healthCheckTimeout))
                 ELSE NewChecker(flags.healthCheckTimeout)
    /\ store = [n \in PodNames |-> IF n = "web-0" THEN 1 ELSE 0]
    /\ uids = 1
    /\ pc = "eval"
    /\ req = [Namespace |-> TargetNamespace, Name |-> "web-0"]
    /\ pod \in {Pod(TargetNamespace, "web-0", 1, st) : st \in WaitStatuses}
    /\ fetched = "found"
    /\ matched = "yes"
    /\ verdict = NoVerdict
    /\ deletes = <<>>
    /\ result = NotReturned
    /\ lookups = <<[err |-> NoErr, nil |-> FALSE, valid |-> TRUE,
                    terms |-> {<<"app", "router">>}]>>
    /\ inflight = 1
    /\ queue = {}
    /\ world = [n \in PodNames |-> Sound]

\* whether a call to a silent peer returns.  GET: http.Client{Timeout:
\* timeout}, and a Timeout of zero is no timeout.  dial: net.Dialer{Timeout:
\* c.timeout}, and the operating system gives up a connect by itself.  exec:
\* StreamWithContext(ctx, ...) with the ctx of Reconcile, which has no
\* deadline; c.timeout is the timeout parameter of the URL of the request.
Deadline(c, op) ==
    CASE op = "GET" -> c.timeout > 0
      [] op = "dial" -> TRUE
      [] op = "exec" -> FALSE

\* what the calls to the silent peers return at their deadline
TimedOut(net, silent) ==
    [http |-> IF "GET" \in silent THEN [err |-> TRUE, code |-> 0]
              ELSE net.http,
     tcp |-> IF "dial" \in silent THEN [err |-> TRUE] ELSE net.tcp,
     exec |-> IF "exec" \in silent
              THEN [kind |-> "stream", code |-> 0, stdout |-> <<>>]
              ELSE net.exec]

\* the evaluation makes a call to a silent peer that has no deadline
Waits(c, v, silent) ==
    \E i \in 1..Len(v.io) : v.io[i].op \in silent /\ ~Deadline(c, v.io[i].op)

\* lines 58-66: IsPodHealthy, which returns or does not
EvaluateOrWait ==
    /\ pc = "eval"
    /\ \E net \in NetworksFor(checker, pod, r.HealthCheckOptions),
          silent \in SUBSET {"GET", "dial", "exec"} :
          LET v == IsPodHealthy(checker, pod, r.HealthCheckOptions,
                                TimedOut(net, silent))
          IN  IF Waits(checker, v, silent)
              THEN /\ pc' = "waiting"
                   /\ UNCHANGED <<flags, proc, checker, store, uids, req, pod,
                                  fetched, matched, verdict, deletes, result,
                                  lookups, inflight>>
              ELSE EvaluateStep(TimedOut(net, silent))
    /\ UNCHANGED <<queue, world>>

NextWait ==
    \/ EvaluateOrWait
    \/ DeletePod
    \/ Handled

SpecWait == InitWait /\ [][NextWait]_vars

(***************************************************************************)
(* Properties.  pod, matched, verdict, deletes and result describe the     *)
(* Reconcile in flight, or the one that has just returned (pc = "done").   *)
(***************************************************************************)
opts == r.HealthCheckOptions
Evaluated == verdict.calls # <<>>
Unhealthy == Evaluated /\ ~verdict.healthy /\ verdict.err = Nil
Healthy == Evaluated /\ verdict.healthy /\ verdict.err = Nil
Done == pc = "done" /\ result = Return(0, Nil)
Retry == pc = "done" /\ result = Return(RequeueDelay, Nil)

Invoked(layer) ==
    \E i \in 1..Len(verdict.calls) : verdict.calls[i].layer = layer
CallOf(layer) ==
    verdict.calls[CHOOSE i \in 1..Len(verdict.calls) :
                      verdict.calls[i].layer = layer]
Did(op) == \E i \in 1..Len(verdict.io) : verdict.io[i].op = op
IOOf(op) ==
    verdict.io[CHOOSE i \in 1..Len(verdict.io) : verdict.io[i].op = op]

\* C1: a Delete is issued only in a Reconcile whose Get found the pod, whose
\* filter matched it and whose evaluation returned unhealthy without error,
\* and only for the pod of the request; a Reconcile whose evaluation returned
\* healthy ends in Done with no Delete and no requeue.
C1_DeleteOnlyWhenUnhealthy ==
    /\ (deletes # <<>> \/ pc = "delete")
          => /\ fetched = "found"
             /\ pod # NoPod
             /\ matched = "yes"
             /\ Unhealthy
             /\ \A i \in 1..Len(deletes) :
                   /\ deletes[i].Name = req.Name
                   /\ deletes[i].Namespace = req.Namespace
    /\ Healthy => Done /\ deletes = <<>>

C1_Witness ==
    /\ pc = "done"
    /\ Len(deletes) = 1
    /\ deletes[1].err = NoErr
    /\ store[req.Name] = 0

\* C2: for a pod whose phase is not Running, whatever the options,
\* IsPodHealthy returns (false, nil) and invokes none of the HTTP, TCP and
\* exec layers.
C2_NotRunningIsUnhealthy ==
    (Evaluated /\ pod.Phase # PodRunning)
        => /\ Unhealthy
           /\ ~Invoked("http") /\ ~Invoked("tcp") /\ ~Invoked("exec")
           /\ verdict.io = <<>>

C2_Witness ==
    /\ Evaluated
    /\ pod.Phase = "Succeeded"
    /\ pod.PodIP # ""
    /\ opts.HTTPCheckURL = "/health"
    /\ opts.TCPPort > 0
    /\ opts.ExecCommand # ""
    /\ checker.k8sClient

AnyContainerNotReadyOrWaiting(p) ==
    \E i \in 1..Len(p.ContainerStatuses) :
        ~p.ContainerStatuses[i].Ready \/ p.ContainerStatuses[i].Waiting

ReadyConditionTrue(p) ==
    \E i \in 1..Len(p.Conditions) :
        p.Conditions[i].Type = PodReady /\ p.Conditions[i].Status = ConditionTrue

\* C3: IsPodHealthy returns unhealthy for every pod with a container that is
\* not ready or is waiting, in the case the claim insists on: the pod is
\* Running and its Ready condition is True.
C3_ContainerStatusDecides ==
    (/\ Evaluated
     /\ pod.Phase = PodRunning
     /\ ReadyConditionTrue(pod)
     /\ AnyContainerNotReadyOrWaiting(pod))
        => ~verdict.healthy

NoOptionalLayer(o) ==
    o.HTTPCheckURL = "" /\ o.TCPPort = 0 /\ o.ExecCommand = ""

\* C4: with no optional layer configured IsPodHealthy returns no error, and
\* healthy exactly if the pod is Running, its Ready condition is present and
\* True and no container is not ready or waiting.
C4_StatusLayerAlone ==
    (Evaluated /\ NoOptionalLayer(opts))
        => /\ verdict.err = Nil
           /\ verdict.healthy
                 <=> /\ pod.Phase = PodRunning
                     /\ ReadyConditionTrue(pod)
                     /\ ~AnyContainerNotReadyOrWaiting(pod)

Rank(layer) ==
    CASE layer = "status" -> 1
      [] layer = "http" -> 2
      [] layer = "tcp" -> 3
      [] layer = "exec" -> 4

Configured(layer) ==
    CASE layer = "status" -> TRUE
      [] layer = "http" -> opts.HTTPCheckURL # ""
      [] layer = "tcp" -> opts.TCPPort > 0
      [] layer = "exec" -> opts.ExecCommand # ""

LayerOf(op) ==
    CASE op = "GET" -> "http"
      [] op = "dial" -> "tcp"
      [] op = "exec" -> "exec"

\* C5: an evaluation invokes the configured layers in the order status,
\* HTTP, TCP, exec; a layer is invoked only if every configured layer before
\* it was invoked and passed, so the first layer that fails or errs is the
\* last one invoked and decides what the evaluation returns.
C5_LayersInOrder ==
    Evaluated
        => LET calls == verdict.calls
               last == calls[Len(calls)]
           IN  /\ calls[1].layer = "status"
               /\ \A i \in 1..Len(calls) :
                     /\ Configured(calls[i].layer)
                     /\ \A j \in 1..Len(calls) :
                           i < j => Rank(calls[i].layer) < Rank(calls[j].layer)
                     /\ i < Len(calls)
                           => calls[i].healthy /\ calls[i].err = NoErr
                     /\ \A l \in {"status", "http", "tcp", "exec"} :
                           (Configured(l) /\ Rank(l) < Rank(calls[i].layer))
                               => Invoked(l)
               /\ verdict.healthy = (last.healthy /\ last.err = NoErr)
               /\ (verdict.err # Nil) = (last.err # NoErr)
               /\ verdict.healthy
                     => \A l \in {"status", "http", "tcp", "exec"} :
                           Configured(l) => Invoked(l)
               /\ \A i \in 1..Len(verdict.io) :
                     /\ Invoked(LayerOf(verdict.io[i].op))
                     /\ \A j \in 1..Len(verdict.io) :
                           i < j => Rank(LayerOf(verdict.io[i].op))
                                       < Rank(LayerOf(verdict.io[j].op))

C5_Witness ==
    /\ Evaluated
    /\ Len(verdict.calls) = 2
    /\ verdict.calls[2].layer = "http"
    /\ ~verdict.calls[2].healthy
    /\ Did("GET")
    /\ opts.TCPPort > 0
    /\ opts.ExecCommand # ""
    /\ checker.k8sClient

GetFailed == fetched # "" /\ fetched # "found" /\ ~IsNotFound(fetched)
DeleteFailed ==
    \E i \in 1..Len(deletes) :
        deletes[i].err # NoErr /\ ~IsNotFound(deletes[i].err)
RetryablePath == GetFailed \/ (Evaluated /\ verdict.err # Nil) \/ DeleteFailed

\* C6, as claimed: Reconcile never returns an error; it returns a requeue
\* after 10 seconds on every retryable path (Get failed other than NotFound,
\* evaluation error, Delete failed other than NotFound) and a plain result
\* on every other path.
C6_NeverReturnsError ==
    result.returned
        => /\ result.err = Nil
           /\ result.RequeueAfter = IF RetryablePath THEN RequeueDelay ELSE 0

\* C6, amended: an evaluation error and a Delete that failed other than
\* NotFound return no error and a requeue after 10 seconds; a Get that
\* failed other than NotFound returns the error "failed to get pod" and no
\* requeue delay; every other path returns a plain result.
C6_RetryOrGetError ==
    result.returned
        => IF GetFailed
           THEN result = Return(0, Errorf("failed to get pod", fetched))
           ELSE IF (Evaluated /\ verdict.err # Nil) \/ DeleteFailed
           THEN result = Return(RequeueDelay, Nil)
           ELSE result = Return(0, Nil)

C6_Witness ==
    /\ pc = "done"
    /\ GetFailed
    /\ result.err # Nil

\* C7: when the HTTP or the TCP layer is configured and a pod that passes
\* the status layer has no IP, the evaluation returns an error without any
\* network operation, and the Reconcile issues no Delete and returns a
\* requeue after 10 seconds; no evaluation error leads to a Delete.
C7_MissingIPIsAnError ==
    /\ (/\ Evaluated
        /\ opts.HTTPCheckURL # "" \/ opts.TCPPort > 0
        /\ verdict.calls[1].healthy
        /\ pod.PodIP = "")
          => /\ verdict.err # Nil
             /\ ~verdict.healthy
             /\ verdict.io = <<>>
    /\ (Evaluated /\ verdict.err # Nil)
          => /\ Retry
             /\ deletes = <<>>

C7_Witness ==
    /\ Evaluated
    /\ opts.HTTPCheckURL = ""
    /\ opts.TCPPort > 0
    /\ pod.PodIP = ""
    /\ verdict.err = Errorf("tcp port check failed", "pod IP is not available")
    /\ Retry

\* C8: when the TCP connect to a Running and Ready pod fails, the evaluation
\* returns unhealthy without error and the Reconcile issues exactly one
\* Delete, of that pod; when the connect succeeds the TCP layer passes.
C8_TCPConnectDecides ==
    (Evaluated /\ Did("dial"))
        => /\ pod.Phase = PodRunning
           /\ IOOf("dial").to = pod.PodIP
           /\ IOOf("dial").port = opts.TCPPort
           /\ IF IOOf("dial").failed
              THEN /\ Unhealthy
                   /\ CallOf("tcp") = [layer |-> "tcp", healthy |-> FALSE,
                                       err |-> NoErr]
                   /\ pc = "delete" \/ pc = "done"
                   /\ pc = "delete" => deletes = <<>>
                   /\ pc = "done"
                         => /\ Len(deletes) = 1
                            /\ deletes[1].Name = pod.Name
                            /\ deletes[1].Namespace = pod.Namespace
              ELSE CallOf("tcp") = [layer |-> "tcp", healthy |-> TRUE,
                                    err |-> NoErr]

C8_Witness ==
    /\ pc = "done"
    /\ Did("dial")
    /\ IOOf("dial").failed
    /\ ReadyConditionTrue(pod)
    /\ Len(deletes) = 1
    /\ deletes[1].err = NoErr

InRange(code) == 200 <= code /\ code < 400

\* C9: when the HTTP layer runs for a pod with an IP, it passes exactly if a
\* response arrived with a status code in [200, 400); a request that failed
\* and a response with any other code make the evaluation return unhealthy
\* without error.
C9_HTTPStatusDecides ==
    (Evaluated /\ Invoked("http") /\ pod.PodIP # "")
        => /\ CallOf("http").healthy
                 <=> /\ Did("GET")
                     /\ ~IOOf("GET").failed
                     /\ InRange(IOOf("GET").code)
           /\ Did("GET")
                 => /\ IOOf("GET").to = pod.PodIP
                    /\ IOOf("GET").port = HTTPPort
                    /\ CallOf("http").err = NoErr
                    /\ (IOOf("GET").failed \/ ~InRange(IOOf("GET").code))
                          => Unhealthy

C9_Witness ==
    /\ Evaluated
    /\ Did("GET")
    /\ IOOf("GET").code = 399
    /\ CallOf("http").healthy

\* substr occurs in s
IsSubstring(s, substr) ==
    \E i \in 1..(Len(s) + 1) :
        /\ i + Len(substr) - 1 <= Len(s)
        /\ \A k \in 1..Len(substr) : s[i + k - 1] = substr[k]

\* C10: when the exec layer runs with a Kubernetes client set, the command
\* runs in the configured container, or in the first container of the pod if
\* none is configured; a stream error and a non-zero exit make the
\* evaluation return unhealthy without error; after an exit with 0 the layer
\* passes exactly if no expected output is configured or the stdout equals
\* or contains it.
C10_ExecDecides ==
    (Evaluated /\ Did("exec"))
        => /\ checker.k8sClient
           /\ Invoked("exec")
           /\ CallOf("exec").err = NoErr
           /\ IOOf("exec").to = IF opts.ContainerName # ""
                                THEN opts.ContainerName
                                ELSE pod.Containers[1]
           /\ IF IOOf("exec").failed \/ IOOf("exec").code # 0
              THEN Unhealthy
              ELSE CallOf("exec").healthy
                      <=> \/ opts.ExpectedOutput = <<>>
                          \/ IOOf("exec").out = opts.ExpectedOutput
                          \/ IsSubstring(IOOf("exec").out, opts.ExpectedOutput)

C10_Witness ==
    /\ Healthy
    /\ Did("exec")
    /\ opts.ContainerName = ""
    /\ opts.ExpectedOutput = <<"j">>
    /\ IOOf("exec").out = <<"p", "j">>

\* C11: when the exec layer is configured, the Checker has no Kubernetes
\* client and the pod passed every layer before, the evaluation returns the
\* error "kubernetes client not configured for exec checks" and not a verdict
\* of unhealthy, no command is run, and the Reconcile returns a requeue
\* after 10 seconds without going on to the Delete.
C11_NoClientIsAnError ==
    (Evaluated /\ Invoked("exec") /\ ~(checker.k8sClient /\ checker.restConfig))
        => /\ verdict.err
                 = Errorf("exec command check failed",
                          "kubernetes client not configured for exec checks")
           /\ ~Unhealthy
           /\ ~Did("exec")
           /\ Retry
           /\ deletes = <<>>

C11_Witness ==
    /\ Evaluated
    /\ ~checker.k8sClient
    /\ opts.ExecCommand # ""
    /\ opts.HTTPCheckURL = "/health"
    /\ Did("GET")
    /\ Invoked("exec")
    /\ Retry

\* every term of the selector is a label of the pod, with the term's value
Satisfies(terms, labels) ==
    {t \in terms : t[1] \in DOMAIN labels /\ labels[t[1]] = t[2]} = terms

\* the pod carries the labels the StatefulSet looked up selects
InGroup ==
    /\ lookups # <<>>
    /\ lookups[1].err = NoErr
    /\ ~lookups[1].nil
    /\ lookups[1].valid
    /\ Satisfies(lookups[1].terms, pod.Labels)

\* the pod carries the labels the configured selector asks for
Selected ==
    /\ labelsParse(r.PodLabelSelector).err = NoErr
    /\ Satisfies(labelsParse(r.PodLabelSelector).terms, pod.Labels)

\* C12: matchesFilter returns true exactly for the pods that satisfy every
\* configured criterion: both the StatefulSet and the label selector if both
\* are configured, the configured one if only one is; a pod it rejects is
\* neither evaluated nor deleted and its Reconcile ends in Done.
C12_BothCriteria ==
    matched # ""
        => /\ matched = "yes"
                 <=> /\ r.StatefulSetName # "" => InGroup
                     /\ r.PodLabelSelector # "" => Selected
           /\ matched = "no" => Done /\ ~Evaluated /\ deletes = <<>>

C12_Witness ==
    /\ r.StatefulSetName # ""
    /\ r.PodLabelSelector # ""
    /\ InGroup
    /\ ~Selected
    /\ matched = "no"
    /\ Done

LookupFailed == lookups # <<>> /\ lookups[1].err # NoErr
NoMemberSelector ==
    lookups # <<>> /\ lookups[1].err = NoErr /\ lookups[1].nil

\* C13: when the Get of the StatefulSet fails, or the StatefulSet has no
\* selector, matchesFilter returns false whatever the labels of the pod and
\* the label selector: the Reconcile ends in Done without evaluation and
\* without Delete, and the process keeps running.
C13_LookupFailureExcludes ==
    (LookupFailed \/ NoMemberSelector)
        => /\ matched = "no"
           /\ Done
           /\ ~Evaluated
           /\ deletes = <<>>
           /\ proc = "running"

C13_Witness ==
    /\ LookupFailed
    /\ lookups[1].err = "InternalError"
    /\ r.PodLabelSelector = "app=router"
    /\ Selected
    /\ matched = "no"
    /\ Done

\* C14: when the Get of the pod answers NotFound, Reconcile returns a plain
\* result, no error and no requeue, and has made no Get of the StatefulSet,
\* no filter decision, no evaluation and no Delete.
C14_NotFoundEndsAtOnce ==
    fetched = "NotFound"
        => /\ Done
           /\ lookups = <<>>
           /\ matched = ""
           /\ ~Evaluated
           /\ deletes = <<>>
           /\ pod = NoPod

C14_Witness ==
    /\ fetched = "NotFound"
    /\ r.StatefulSetName # ""
    /\ r.PodLabelSelector # ""
    /\ store[req.Name] = 0
    /\ Done

\* C15: a Delete that answers NotFound, because the pod went away after the
\* Get, ends the Reconcile as a Delete that succeeded does: with a plain
\* result, no error and no requeue, and after this one Delete.
C15_DeleteNotFoundIsDone ==
    (deletes # <<>> /\ (deletes[1].err = NoErr \/ IsNotFound(deletes[1].err)))
        => /\ Done
           /\ Len(deletes) = 1

C15_Witness ==
    /\ deletes # <<>>
    /\ IsNotFound(deletes[1].err)
    /\ fetched = "found"
    /\ Unhealthy
    /\ Done

\* the Reconcile of the pod name ended at the filter
Rejected(name) == pc = "done" /\ req.Name = name /\ matched = "no"

C17_OneInFlight ==
    /\ inflight <= 1
    /\ inflight = 0 <=> pc = "idle"
    /\ pc \in {"filter", "eval", "delete"} => ~ENABLED Fetch

C17_Witness ==
    /\ inflight = 1
    /\ pc = "delete"
    /\ \A name \in PodNames : store[name] # 0

HasLabel(p, key, value) == key \in DOMAIN p.Labels /\ p.Labels[key] = value
LacksTerm(p, terms) ==
    \E t \in terms : t[1] \notin DOMAIN p.Labels \/ p.Labels[t[1]] # t[2]

\* C18: a pod matches a selector, the configured label selector or the one
\* of the StatefulSet looked up, exactly if it has every term's key with the
\* term's value: a pod with these labels and others matches, a pod that
\* lacks a key or has another value for it does not.
C18_EveryTermExactly ==
    /\ (matched # "" /\ r.StatefulSetName = "")
          => LET terms == labelsParse(r.PodLabelSelector).terms
             IN  /\ matched = "yes"
                       <=> \A t \in terms : HasLabel(pod, t[1], t[2])
                 /\ LacksTerm(pod, terms) => matched = "no"
    /\ (/\ matched # ""
        /\ r.PodLabelSelector = ""
        /\ lookups[1].err = NoErr
        /\ ~lookups[1].nil
        /\ lookups[1].valid)
          => LET terms == lookups[1].terms
             IN  /\ matched = "yes"
                       <=> \A t \in terms : HasLabel(pod, t[1], t[2])
                 /\ LacksTerm(pod, terms) => matched = "no"

\* a pod with an extra label, matched by the selector of the StatefulSet
C18_Witness ==
    /\ matched = "yes"
    /\ r.PodLabelSelector = ""
    /\ lookups # <<>>
    /\ lookups[1].terms = {<<"app", "router">>}
    /\ pod.Labels = [app |-> "router", tier |-> "cache"]

\* C19: a reconciler never runs without a filter criterion: with neither a
\* StatefulSet name nor a label selector main exits before the controller is
\* set up, so no Reconcile has started or ever starts.
C19_FilterConfigured ==
    /\ (proc = "running" \/ inflight > 0 \/ pc # "idle")
          => r.StatefulSetName # "" \/ r.PodLabelSelector # ""
    /\ (r.StatefulSetName = "" /\ r.PodLabelSelector = "")
          => /\ proc \in {"init", "exited"}
             /\ ~ENABLED Fetch
             /\ fetched = ""

C19_Witness ==
    /\ r.StatefulSetName = ""
    /\ r.PodLabelSelector = ""
    /\ proc = "exited"
    /\ \E name \in PodNames : store[name] # 0

Malformed(text) == text # "" /\ labelsParse(text).err # NoErr

\* C20: a label selector labels.Parse rejects makes SetupWithManager fail and
\* main exit before the controller starts: no Reconcile starts with such a
\* selector, and matchesFilter never meets a parse error.
C20_MalformedSelectorIsFatal ==
    /\ Malformed(r.PodLabelSelector)
          => /\ proc \in {"init", "exited"}
             /\ ~ENABLED Fetch
             /\ inflight = 0
             /\ fetched = ""
    /\ matched # "" => ~Malformed(r.PodLabelSelector)

C20_Witness ==
    /\ Malformed(r.PodLabelSelector)
    /\ r.StatefulSetName # ""
    /\ proc = "exited"
    /\ \E name \in PodNames : store[name] # 0


(***************************************************************************)
(* The namespace.                                                          *)
(***************************************************************************)
\* C21: the request, the pod that is fetched and evaluated, and every pod a
\* Delete is called for are of the namespace the controller is started for
C21_OnlyTargetNamespace ==
    /\ pc # "idle" => req.Namespace = flags.namespace
    /\ pod # NoPod => pod.Namespace = flags.namespace
    /\ \A i \in 1..Len(deletes) : deletes[i].Namespace = flags.namespace

\* a pod of the namespace was evaluated and deleted, and another namespace
\* has pods too
C21_Witness ==
    /\ pc = "done"
    /\ Evaluated
    /\ Len(deletes) = 1
    /\ deletes[1].err = NoErr
    /\ deletes[1].Namespace = flags.namespace
    /\ \E namespace \in Namespaces \ {flags.namespace} :
          \E name \in PodNames : Stored(namespace, name) # 0

(***************************************************************************)
(* The errors of the store.                                                *)
(***************************************************************************)
\* the Get of the StatefulSet failed, and not with NotFound
LookupFailedTransient ==
    lookups # <<>> /\ lookups[1].err # NoErr /\ ~IsNotFound(lookups[1].err)

\* C22: a Reconcile that met an error of the store other than NotFound, at
\* the Get of the pod, at the Get of the StatefulSet or at the Delete,
\* returns a requeue after the fixed delay.
C22_StoreErrorsAreRetried ==
    (result.returned /\ (GetFailed \/ LookupFailedTransient \/ DeleteFailed))
        => Retry

(***************************************************************************)
(* The worker is not held up.                                              *)
(***************************************************************************)
\* C23: with a timeout configured, an evaluation returns: no layer waits for
\* ever for a peer that does not answer, its call is over when the timeout
\* is.
C23_NoLayerBlocks == checker.timeout > 0 => pc # "waiting"

(***************************************************************************)
(* The parameters of the exec check without its command.                   *)
(***************************************************************************)
\* --exec-check-container or --exec-check-expected without
\* --exec-check-command
ExecParametersOnly ==
    /\ flags.execCheckCommand = ""
    /\ flags.execCheckContainer # "" \/ flags.execCheckExpected # <<>>

\* main gets as far as mgr.Start
Starts == Main /\ proc' = "running"

\* C24, as claimed: a process whose command line has a container or an
\* expected output of the exec check and no exec command does not start, and
\* no Reconcile runs with it.
C24_ExecParametersRejected ==
    ExecParametersOnly => proc # "running" /\ pc = "idle"

\* C24, amended: main accepts such a command line (with a filter and a
\* selector that parses it can start), the Checker of the started process has
\* no Kubernetes client, and no Reconcile invokes the exec layer.
C24_ExecParametersIgnored ==
    ExecParametersOnly
        => /\ ( /\ proc = "init"
                /\ flags.statefulSetName # "" \/ flags.podLabelSelector # ""
                /\ labelsParse(flags.podLabelSelector).err = NoErr )
                  => ENABLED Starts
           /\ proc = "running" => ~checker.k8sClient /\ ~checker.restConfig
           /\ ~Invoked("exec")

\* a pod that passed the other layers was evaluated, healthy, by a process
\* started with an expected output and no command
C24_Witness ==
    /\ ExecParametersOnly
    /\ proc = "running"
    /\ pc = "done"
    /\ Healthy
    /\ ~Invoked("exec")

(***************************************************************************)
(* What a Reconcile changes.  Its steps are the steps that change pc.      *)
(***************************************************************************)
\* C25: a step of a Reconcile leaves the store as it is, or it is the Delete
\* and takes the pod of the request out of the store, and nothing else; no
\* pod is created; a Reconcile calls Delete once at most; the pod it fetched
\* stays as fetched until it returns; the flags, the reconciler built from
\* them and the Checker do not change.
C25_OnlyDeletesItsPod ==
    [][pc' # pc
          => /\ \/ store' = store
                \/ /\ pc = "delete"
                   /\ req.Namespace = TargetNamespace
                   /\ store' = [store EXCEPT ![req.Name] = 0]
             /\ uids' = uids
             /\ Len(deletes') <= 1
             /\ \A i \in 1..Len(deletes') :
                   /\ deletes'[i].Namespace = req.Namespace
                   /\ deletes'[i].Name = req.Name
             /\ (pc \notin {"idle", "done"}) => pod' = pod /\ req' = req
             /\ flags' = flags
             /\ r' = r
             /\ checker' = checker]_vars

\* a Reconcile deleted its pod and the other pod is still there
C25_Witness ==
    /\ pc = "done"
    /\ Len(deletes) = 1
    /\ deletes[1].err = NoErr
    /\ store[req.Name] = 0
    /\ \E name \in PodNames \ {req.Name} : store[name] # 0

(***************************************************************************)
(* The pod that replaces a deleted one.                                    *)
(***************************************************************************)
\* C26: the controller does not delete a pod that replaces one it deleted
\* while that pod is starting (Pending): the pod of a Delete that removed a
\* replacement was fetched in another phase.
C26_StartingPodIsKept ==
    \A i \in 1..Len(deletes) :
        (deletes[i].err = NoErr /\ pod.UID > 1) => pod.Phase # "Pending"

(***************************************************************************)
(* The pod a Delete removes.                                               *)
(***************************************************************************)
\* C27: the pod a Delete of a Reconcile takes out of the store is the one
\* this Reconcile fetched, with the UID it fetched, and not a pod created
\* under the same name since.
C27_DeletesWhatItFetched ==
    [][(pc = "delete" /\ pc' = "done" /\ store' # store)
          => store[req.Name] = pod.UID]_vars

(***************************************************************************)
(* The Kubernetes client of the Checker in the program main assembles.     *)
(***************************************************************************)
\* C28: in a started process the Checker has its Kubernetes client and REST
\* config exactly if an exec command is configured; every evaluation that
\* invokes the exec layer is made by a Checker that has them, and none ends
\* in the error "kubernetes client not configured for exec checks".
C28_ClientIffExecCommand ==
    proc = "running"
        => /\ (checker.k8sClient /\ checker.restConfig)
                  <=> flags.execCheckCommand # ""
           /\ checker.k8sClient <=> checker.restConfig
           /\ Invoked("exec") => checker.k8sClient /\ checker.restConfig
           /\ \A i \in 1..Len(verdict.calls) :
                 verdict.calls[i].err
                     # "kubernetes client not configured for exec checks"

\* the exec layer ran the command of a started process
C28_Witness ==
    /\ proc = "running"
    /\ flags.execCheckCommand # ""
    /\ Invoked("exec")
    /\ Did("exec")
    /\ checker.k8sClient

====
